---- MODULE Spec2Model ----
(***************************************************************************)
(* build.py: assembly of the flashable zip and of the uninstaller zip,     *)
(* the bootstrap script generator and the sign / adjust / re-sign          *)
(* pipeline.                                                               *)
(*                                                                         *)
(* A file path is a tuple of its components (os.path.join appends a        *)
(* component); text is a sequence of one-character strings; a binary is a  *)
(* sequence of bytes 0..255.                                               *)
(***************************************************************************)
EXTENDS Integers, Sequences, FiniteSets, TLC

VARIABLES
    pc,            \* position of the interpreter in build.py
    cmd,           \* sub-command chosen on the command line (args.func)
    release,       \* args.release
    osName,        \* os.name
    versionString, \* args.versionString
    versionCode,   \* args.versionCode
    present,       \* source artifacts and tools that exist on disk
    fs,            \* temp and output files made by this run: path -> content
    tmpCount,      \* number of tempfile.mkstemp() calls so far
    proc,          \* packaging procedure being run: "main" / "uninstaller"
    idx,           \* next entry of the procedure's entry list
    entries,       \* entries written into the open archive, in order
    unsigned,      \* local `unsigned`
    signed,        \* local `signed`
    adjusted,      \* local `adjusted`
    output,        \* local `output`
    log,           \* subprocess.run calls made, with their return codes
    exitStatus,    \* exit status of the process once pc = "exited"
    errMsg,        \* what ended the run: an error() message or an exception
    errFile,       \* the file the message is about
    script,        \* contents of scripts/util_functions.sh
    util_func,     \* local `util_func`
    blobs,         \* contents of the four binaries gen_update_binary embeds
    template,      \* contents of scripts/update_binary.sh
    update_bin,    \* local `update_bin`, a list of strings
    update_binary  \* the text gen_update_binary returned

vars == <<pc, cmd, release, osName, versionString, versionCode, present, fs,
          tmpCount, proc, idx, entries, unsigned, signed, adjusted, output,
          log, exitStatus, errMsg, errFile, script, util_func, blobs,
          template, update_bin, update_binary>>

\* what the packaging pipeline never writes
inputVars == <<versionString, versionCode, script, util_func, blobs, template,
               update_bin, update_binary>>

-----------------------------------------------------------------------------
(* Bounds *)

MaxMissing == 2

MaxChunks == 3

MaxBinLen == 2

NoPath == <<>>

-----------------------------------------------------------------------------
(* Paths *)

Join(dir, name) == dir \o <<name>>

\* zipfile.ZipInfo normalises os.sep to "/" in an archive name, so the
\* archive name is the component list whatever os.name is.
ArcName(path) == path

MetaInf == <<"META-INF", "com", "google", "android">>

LibDirs ==
    << <<"arm64-v8a", "arm64">>, <<"armeabi-v7a", "arm">>,
       <<"x86", "x86">>, <<"x86_64", "x64">> >>

\* the inner loop with its two binaries in the other order
MainBinaries_Swapped == <<"magiskboot", "magiskinit">>

MainBinaries == <<"magiskinit", "magiskboot">>

\* the uninstaller packing the binaries of the installer
UninstallerBinaries_WithInit == <<"magiskinit", "magiskboot">>

UninstallerBinaries == <<"magiskboot">>

Chromeos == <<"futility", "kernel_data_key.vbprivk", "kernel.keyblock">>

B64xzArm == <<"out", "armeabi-v7a", "b64xz">>
B64xzX86 == <<"out", "x86", "b64xz">>
BusyboxArm == <<"out", "armeabi-v7a", "busybox">>
BusyboxX86 == <<"out", "x86", "busybox">>
UpdateBinarySh == <<"scripts", "update_binary.sh">>
UtilFunctionsSh == <<"scripts", "util_functions.sh">>
Zipadjust == <<"ziptools", "zipadjust">>
Jarsigner == <<"crypto", "build", "libs", "zipsigner-1.1.jar">>

Apk(rel) == <<"out", IF rel THEN "app-release.apk" ELSE "app-debug.apk">>

-----------------------------------------------------------------------------
(* Text *)

Digits == <<"0", "1", "2", "3", "4", "5", "6", "7", "8", "9">>

RECURSIVE NatToStr(_)
NatToStr(n) ==
    IF n < 10 THEN <<Digits[n + 1]>>
    ELSE NatToStr(n \div 10) \o <<Digits[(n % 10) + 1]>>

\* '{}'.format(n) for an int
IntToStr(n) == IF n < 0 THEN <<"-">> \o NatToStr(0 - n) ELSE NatToStr(n)

\* 'MAGISK_VER="{}"\nMAGISK_VER_CODE={}'.format(versionString, versionCode)
VersionLines(vs, vc) ==
    <<"M","A","G","I","S","K","_","V","E","R","=","\"">> \o vs
    \o <<"\"","\n","M","A","G","I","S","K","_","V","E","R","_","C","O","D","E","=">>
    \o IntToStr(vc)

RECURSIVE Flatten(_)
\* ''.join(list)
Flatten(ss) == IF ss = <<>> THEN <<>> ELSE Head(ss) \o Flatten(Tail(ss))

RECURSIVE ReplaceFrom(_, _, _, _)
\* str.replace scans from the left and never looks into what it has emitted
ReplaceFrom(s, old, new, i) ==
    IF i > Len(s) THEN <<>>
    ELSE IF i + Len(old) - 1 <= Len(s) /\ SubSeq(s, i, i + Len(old) - 1) = old
         THEN new \o ReplaceFrom(s, old, new, i + Len(old))
         ELSE <<s[i]>> \o ReplaceFrom(s, old, new, i + 1)

\* a replace that puts the new text in front of the token and keeps the token
Replace_KeepsToken(s, old, new) == ReplaceFrom(s, old, new \o old, 1)

\* s.replace(old, new), for a non-empty old
Replace(s, old, new) == ReplaceFrom(s, old, new, 1)

-----------------------------------------------------------------------------
(* Entry lists of the two archives, in the order the code writes them *)

\* `new` is the text that replaces MAGISK_VERSION_STUB in a patched script
GenItem ==
    [kind |-> "gen", source |-> NoPath, new |-> <<>>,
     target |-> ArcName(Join(MetaInf, "update-binary"))]

FileItem(src, tgt) ==
    [kind |-> "file", source |-> src, new |-> <<>>, target |-> ArcName(tgt)]

UtilItem(tgt, new) ==
    [kind |-> "util", source |-> UtilFunctionsSh, new |-> new,
     target |-> ArcName(tgt)]

\* for lib_dir, zip_dir in [...]: for binary in [...]: zip_with_msg(...)
BinaryItems(binaries) ==
    [k \in 1..(Len(LibDirs) * Len(binaries)) |->
        LET lib == LibDirs[((k - 1) \div Len(binaries)) + 1]
            bin == binaries[((k - 1) % Len(binaries)) + 1]
        IN  FileItem(<<"out", lib[1], bin>>, <<lib[2], bin>>)]

\* for chromeos in [...]: zip_with_msg(zipf, source, source)
ChromeosItems ==
    [k \in 1..Len(Chromeos) |->
        FileItem(<<"chromeos", Chromeos[k]>>, <<"chromeos", Chromeos[k]>>)]

MainPlan(rel, vs, vc) ==
    << GenItem,
       FileItem(<<"scripts", "flash_script.sh">>, Join(MetaInf, "updater-script")) >>
    \o BinaryItems(MainBinaries)
    \o << FileItem(Apk(rel), <<"common", "magisk.apk">>),
          FileItem(<<"scripts", "boot_patch.sh">>, <<"common", "boot_patch.sh">>),
          UtilItem(<<"common", "util_functions.sh">>, VersionLines(vs, vc)),
          FileItem(<<"scripts", "addon.d.sh">>, <<"addon.d", "99-magisk.sh">>) >>
    \o ChromeosItems

UninstallerPlan ==
    << GenItem,
       FileItem(<<"scripts", "uninstaller_loader.sh">>, Join(MetaInf, "updater-script")) >>
    \o BinaryItems(UninstallerBinaries)
    \o << FileItem(<<"scripts", "magisk_uninstaller.sh">>, <<"magisk_uninstaller.sh">>),
          UtilItem(<<"util_functions.sh">>, <<>>) >>
    \o ChromeosItems

Plan(p, rel) ==
    IF p = "main" THEN MainPlan(rel, versionString, versionCode)
    ELSE UninstallerPlan

Range(s) == {s[i] : i \in 1..Len(s)}

\* every file the packaging procedures look for
AllFiles ==
    {it.source : it \in {i \in Range(MainPlan(TRUE, <<>>, 0)) \cup Range(MainPlan(FALSE, <<>>, 0))
                              \cup Range(UninstallerPlan) : i.kind # "gen"}}
    \cup {B64xzArm, B64xzX86, BusyboxArm, BusyboxX86, UpdateBinarySh,
          Zipadjust, Jarsigner}

-----------------------------------------------------------------------------
(* Inputs of a run *)

RECURSIVE SubsetsUpTo(_, _)
\* the subsets of S with at most k elements
SubsetsUpTo(S, k) ==
    IF k = 0 THEN {{}}
    ELSE LET smaller == SubsetsUpTo(S, k - 1)
         IN  smaller \cup {s \cup {x} : s \in smaller, x \in S}

Commands == {"all", "zip", "uninstaller"}

OsNames == {"posix", "nt"}

ReturnCodes == {0, 1}

Dates == {<<"20180101">>, <<"20180102">>}

Stub ==
    <<"M","A","G","I","S","K","_","V","E","R","S","I","O","N","_","S","T","U","B">>

VersionStrings ==
    { <<"2","4",".","0">>, <<"v","1">>, Stub,
      <<"V","E","R","S","I","O","N","_","S","T","U","B">> }

VersionCodes == {0, 7, 2400, 0 - 3}

NoBlobs == [f \in {B64xzArm, B64xzX86, BusyboxArm, BusyboxX86} |-> <<>>]

-----------------------------------------------------------------------------
(* Helpers of the packaging pipeline *)

\* tempfile.mkstemp()[1]: a name no earlier call returned
Mkstemp(n) == <<"tmp", ToString(n + 1)>>

Call(stage, mode, in, out, rc) ==
    [stage |-> stage, mode |-> mode, in |-> in, out |-> out, rc |-> rc]

\* a list of subprocess.run calls each followed by `if proc.returncode != 0:
\* error(...)`: the first n succeed and, if there is a next one, it fails
Calls(stages, n) ==
    [i \in 1..(IF n < Len(stages) THEN n + 1 ELSE Len(stages)) |->
        Call(stages[i], "", NoPath, NoPath, IF i <= n THEN 0 ELSE 1)]

\* error(str): print the message and sys.exit(1)
error(msg, file) ==
    /\ pc' = "exited"
    /\ exitStatus' = 1
    /\ errMsg' = msg
    /\ errFile' = file

\* the message of zip_with_msg for a file that does not exist
MissingArtifact == "does not exist! Try build 'binary' and 'apk' before zipping!"

\* the message of gen_update_binary
ArtifactUnavailable == "Please build 'binary' before zipping!"

\* an exception nothing catches: traceback, exit status 1
Uncaught(exc, file) ==
    /\ pc' = "exited"
    /\ exitStatus' = 1
    /\ errMsg' = exc
    /\ errFile' = file

\* normal end of the script
ExitOk ==
    /\ pc' = "exited"
    /\ exitStatus' = 0
    /\ UNCHANGED <<errMsg, errFile>>

\* rm(file) for each of the files
Rm(files) == [p \in (DOMAIN fs) \ files |-> fs[p]]

WriteFile(path, content) == (path :> content) @@ fs

\* the files gen_update_binary opens, in the order it opens them
GenInputs == <<B64xzArm, B64xzX86, BusyboxArm, BusyboxX86, UpdateBinarySh>>

FirstMissing(files) ==
    LET missing == {i \in 1..Len(files) : files[i] \notin present}
    IN  files[CHOOSE i \in missing : \A j \in missing : i <= j]

OutputPath(p, date) ==
    IF p = "main"
    THEN <<"out", "Magisk-v">> \o versionString \o <<".zip">>
    ELSE <<"out", "Magisk-uninstaller-">> \o date \o <<".zip">>

IsOutput(path) == Len(path) > 0 /\ path[1] = "out"

IsTemp(path) == Len(path) > 0 /\ path[1] = "tmp"

-----------------------------------------------------------------------------
(* build_all and the builds it runs around the packaging procedures *)

Dispatch ==
    /\ UNCHANGED inputVars
    /\ pc = "start"
    /\ pc' = CASE cmd = "all" -> "build_binary"
               [] cmd = "zip" -> "zip_main"
               [] OTHER -> "zip_uninstaller"
    /\ UNCHANGED <<cmd, release, osName, present, fs, tmpCount, proc, idx,
                   entries, unsigned, signed, adjusted, output, log,
                   exitStatus, errMsg, errFile>>

BuildBinaryStages == <<"ndk-build PRECOMPILE", "ndk-build">>

build_binary ==
    /\ UNCHANGED inputVars
    /\ pc = "build_binary"
    /\ \E n \in 0..Len(BuildBinaryStages) :
          /\ log' = log \o Calls(BuildBinaryStages, n)
          /\ IF n < Len(BuildBinaryStages)
             THEN error("Build Magisk binary failed!", NoPath)
             ELSE /\ pc' = "build_apk"
                  /\ UNCHANGED <<exitStatus, errMsg, errFile>>
    /\ UNCHANGED <<cmd, release, osName, present, fs, tmpCount, proc, idx,
                   entries, unsigned, signed, adjusted, output>>

BuildApkStages(rel) ==
    IF rel THEN <<"gradlew app:assembleRelease", "zipalign", "apksigner">>
    ELSE <<"gradlew app:assembleDebug">>

BuildApkMessages(rel) ==
    IF rel THEN <<"Build Magisk Manager failed!", "Zipalign Magisk Manager failed!",
                  "Release sign Magisk Manager failed!">>
    ELSE <<"Build Magisk Manager failed!">>

build_apk ==
    /\ UNCHANGED inputVars
    /\ pc = "build_apk"
    /\ \E n \in 0..Len(BuildApkStages(release)) :
          /\ log' = log \o Calls(BuildApkStages(release), n)
          /\ IF n < Len(BuildApkStages(release))
             THEN /\ error(BuildApkMessages(release)[n + 1], NoPath)
                  /\ UNCHANGED present
             ELSE /\ pc' = "zip_main"
                  /\ present' = present \cup {Apk(release)}
                  /\ UNCHANGED <<exitStatus, errMsg, errFile>>
    /\ UNCHANGED <<cmd, release, osName, fs, tmpCount, proc, idx, entries,
                   unsigned, signed, adjusted, output>>

build_snet ==
    /\ UNCHANGED inputVars
    /\ pc = "build_snet"
    /\ \E rc \in ReturnCodes :
          /\ log' = Append(log, Call("gradlew snet:assembleRelease", "", NoPath, NoPath, rc))
          /\ IF rc # 0
             THEN error("Build snet extention failed!", NoPath)
             ELSE ExitOk
    /\ UNCHANGED <<cmd, release, osName, present, fs, tmpCount, proc, idx,
                   entries, unsigned, signed, adjusted, output>>

-----------------------------------------------------------------------------
(* zip_main / zip_uninstaller: assembly of the unsigned archive *)

\* unsigned = tempfile.mkstemp()[1]; with zipfile.ZipFile(unsigned, 'w', ...)
BeginZip ==
    /\ UNCHANGED inputVars
    /\ pc \in {"zip_main", "zip_uninstaller"}
    /\ proc' = IF pc = "zip_main" THEN "main" ELSE "uninstaller"
    /\ unsigned' = Mkstemp(tmpCount)
    /\ tmpCount' = tmpCount + 1
    /\ fs' = WriteFile(Mkstemp(tmpCount), "open archive")
    /\ entries' = <<>>
    /\ idx' = 1
    /\ signed' = NoPath
    /\ adjusted' = NoPath
    /\ output' = NoPath
    /\ pc' = "zipping"
    /\ UNCHANGED <<cmd, release, osName, present, log, exitStatus, errMsg, errFile>>

\* leaving the `with` block on SystemExit or on an exception closes the
\* archive: the temp file holds the entries written so far
AbortZip == fs' = WriteFile(unsigned, "aborted archive")

WriteEntry(item) ==
    /\ entries' = Append(entries, item)
    /\ idx' = idx + 1
    /\ UNCHANGED <<pc, fs, exitStatus, errMsg, errFile>>

\* zipf.writestr(target, gen_update_binary())
GenUpdateBinaryEntry ==
    /\ UNCHANGED inputVars
    /\ pc = "zipping"
    /\ idx <= Len(Plan(proc, release))
    /\ Plan(proc, release)[idx].kind = "gen"
    /\ IF B64xzArm \notin present
       THEN /\ error(ArtifactUnavailable, B64xzArm)
            /\ AbortZip
            /\ UNCHANGED <<entries, idx>>
       ELSE IF \E i \in 1..Len(GenInputs) : GenInputs[i] \notin present
       THEN /\ Uncaught("FileNotFoundError", FirstMissing(GenInputs))
            /\ AbortZip
            /\ UNCHANGED <<entries, idx>>
       ELSE WriteEntry(Plan(proc, release)[idx])
    /\ UNCHANGED <<cmd, release, osName, present, tmpCount, proc, unsigned,
                   signed, adjusted, output, log>>

\* zip_with_msg(zipf, source, target)
zip_with_msg ==
    /\ UNCHANGED inputVars
    /\ pc = "zipping"
    /\ idx <= Len(Plan(proc, release))
    /\ Plan(proc, release)[idx].kind = "file"
    /\ IF Plan(proc, release)[idx].source \notin present
       THEN /\ error(MissingArtifact, Plan(proc, release)[idx].source)
            /\ AbortZip
            /\ UNCHANGED <<entries, idx>>
       ELSE WriteEntry(Plan(proc, release)[idx])
    /\ UNCHANGED <<cmd, release, osName, present, tmpCount, proc, unsigned,
                   signed, adjusted, output, log>>

\* with open(source, 'r') as script: ... zipf.writestr(target, util_func)
UtilFuncEntry ==
    /\ UNCHANGED inputVars
    /\ pc = "zipping"
    /\ idx <= Len(Plan(proc, release))
    /\ Plan(proc, release)[idx].kind = "util"
    /\ IF Plan(proc, release)[idx].source \notin present
       THEN /\ Uncaught("FileNotFoundError", Plan(proc, release)[idx].source)
            /\ AbortZip
            /\ UNCHANGED <<entries, idx>>
       ELSE WriteEntry(Plan(proc, release)[idx])
    /\ UNCHANGED <<cmd, release, osName, present, tmpCount, proc, unsigned,
                   signed, adjusted, output, log>>

\* end of the `with` block, then output = ...; sign_adjust_zip(unsigned, output)
CloseZip ==
    /\ UNCHANGED inputVars
    /\ pc = "zipping"
    /\ idx > Len(Plan(proc, release))
    /\ fs' = WriteFile(unsigned, "Unsigned")
    /\ \E date \in Dates : output' = OutputPath(proc, date)
    /\ pc' = "sign_adjust_zip"
    /\ UNCHANGED <<cmd, release, osName, present, tmpCount, proc, idx, entries,
                   unsigned, signed, adjusted, log, exitStatus, errMsg, errFile>>

-----------------------------------------------------------------------------
(* sign_adjust_zip *)

\* if os.name != 'nt' and not os.path.exists(ziptools/zipadjust): gcc ...
PrereqZipadjust ==
    /\ UNCHANGED inputVars
    /\ pc = "sign_adjust_zip"
    /\ IF osName # "nt" /\ Zipadjust \notin present
       THEN \E rc \in ReturnCodes :
               /\ log' = Append(log, Call("gcc zipadjust", "", NoPath, Zipadjust, rc))
               /\ IF rc # 0
                  THEN /\ error("Build zipadjust failed!", NoPath)
                       /\ UNCHANGED present
                  ELSE /\ present' = present \cup {Zipadjust}
                       /\ pc' = "check_jarsigner"
                       /\ UNCHANGED <<exitStatus, errMsg, errFile>>
       ELSE /\ pc' = "check_jarsigner"
            /\ UNCHANGED <<log, present, exitStatus, errMsg, errFile>>
    /\ UNCHANGED <<cmd, release, osName, fs, tmpCount, proc, idx, entries,
                   unsigned, signed, adjusted, output>>

\* if not os.path.exists(jarsigner): gradlew crypto:shadowJar
PrereqJarsigner ==
    /\ UNCHANGED inputVars
    /\ pc = "check_jarsigner"
    /\ IF Jarsigner \notin present
       THEN \E rc \in ReturnCodes :
               /\ log' = Append(log, Call("gradlew crypto:shadowJar", "", NoPath, Jarsigner, rc))
               /\ IF rc # 0
                  THEN /\ error("Build zipsigner-1.1.jar failed!", NoPath)
                       /\ UNCHANGED present
                  ELSE /\ present' = present \cup {Jarsigner}
                       /\ pc' = "first_sign"
                       /\ UNCHANGED <<exitStatus, errMsg, errFile>>
       ELSE /\ pc' = "first_sign"
            /\ UNCHANGED <<log, present, exitStatus, errMsg, errFile>>
    /\ UNCHANGED <<cmd, release, osName, fs, tmpCount, proc, idx, entries,
                   unsigned, signed, adjusted, output>>

\* what a tool that exits non-zero may have left in its output file
FailedWrites == {"untouched", "partial"}

\* signed = mkstemp(); java -jar jarsigner publicKey privateKey unsigned signed
FirstSign ==
    /\ UNCHANGED inputVars
    /\ pc = "first_sign"
    /\ signed' = Mkstemp(tmpCount)
    /\ tmpCount' = tmpCount + 1
    /\ \E rc \in ReturnCodes, w \in FailedWrites :
          /\ log' = Append(log, Call("first sign", "", unsigned, signed', rc))
          /\ IF rc # 0
             THEN /\ error("First sign flashable zip failed!", NoPath)
                  /\ fs' = WriteFile(signed', IF w = "partial" THEN "partial" ELSE "empty")
             ELSE /\ fs' = WriteFile(signed', "Signed")
                  /\ pc' = "adjust"
                  /\ UNCHANGED <<exitStatus, errMsg, errFile>>
    /\ UNCHANGED <<cmd, release, osName, present, proc, idx, entries, unsigned,
                   adjusted, output>>

\* the adjust stage without its return code check
Adjust_IgnoresReturncode ==
    /\ UNCHANGED inputVars
    /\ pc = "adjust"
    /\ adjusted' = Mkstemp(tmpCount)
    /\ tmpCount' = tmpCount + 1
    /\ \E rc \in ReturnCodes :
          /\ log' = Append(log, Call("adjust", "", signed, adjusted', rc))
          /\ fs' = WriteFile(adjusted', IF rc = 0 THEN "Adjusted" ELSE "partial")
          /\ pc' = "second_sign"
          /\ UNCHANGED <<exitStatus, errMsg, errFile>>
    /\ UNCHANGED <<cmd, release, osName, present, proc, idx, entries, unsigned,
                   signed, output>>

\* adjusted = mkstemp(); ziptools/zipadjust signed adjusted
Adjust ==
    /\ UNCHANGED inputVars
    /\ pc = "adjust"
    /\ adjusted' = Mkstemp(tmpCount)
    /\ tmpCount' = tmpCount + 1
    /\ IF Zipadjust \notin present
       THEN \* subprocess.run cannot start the program
            /\ Uncaught("FileNotFoundError", Zipadjust)
            /\ fs' = WriteFile(adjusted', "empty")
            /\ UNCHANGED log
       ELSE \E rc \in ReturnCodes, w \in FailedWrites :
               /\ log' = Append(log, Call("adjust", "", signed, adjusted', rc))
               /\ IF rc # 0
                  THEN /\ error("Adjust flashable zip failed!", NoPath)
                       /\ fs' = WriteFile(adjusted', IF w = "partial" THEN "partial" ELSE "empty")
                  ELSE /\ fs' = WriteFile(adjusted', "Adjusted")
                       /\ pc' = "second_sign"
                       /\ UNCHANGED <<exitStatus, errMsg, errFile>>
    /\ UNCHANGED <<cmd, release, osName, present, proc, idx, entries, unsigned,
                   signed, output>>

\* the second sign given the output of the first sign
SecondSign_ReadsSigned ==
    /\ UNCHANGED inputVars
    /\ pc = "second_sign"
    /\ \E rc \in ReturnCodes, w \in FailedWrites :
          /\ log' = Append(log, Call("second sign", "-m", signed, output, rc))
          /\ IF rc # 0
             THEN /\ error("Second sign flashable zip failed!", NoPath)
                  /\ fs' = IF w = "partial" THEN WriteFile(output, "partial") ELSE fs
             ELSE /\ fs' = WriteFile(output, "FinalSigned")
                  /\ pc' = "cleanup"
                  /\ UNCHANGED <<exitStatus, errMsg, errFile>>
    /\ UNCHANGED <<cmd, release, osName, present, tmpCount, proc, idx, entries,
                   unsigned, signed, adjusted, output>>

\* java -jar jarsigner -m publicKey privateKey adjusted output
SecondSign ==
    /\ UNCHANGED inputVars
    /\ pc = "second_sign"
    /\ \E rc \in ReturnCodes, w \in FailedWrites :
          /\ log' = Append(log, Call("second sign", "-m", adjusted, output, rc))
          /\ IF rc # 0
             THEN /\ error("Second sign flashable zip failed!", NoPath)
                  /\ fs' = IF w = "partial" THEN WriteFile(output, "partial") ELSE fs
             ELSE /\ fs' = WriteFile(output, "FinalSigned")
                  /\ pc' = "cleanup"
                  /\ UNCHANGED <<exitStatus, errMsg, errFile>>
    /\ UNCHANGED <<cmd, release, osName, present, tmpCount, proc, idx, entries,
                   unsigned, signed, adjusted, output>>

\* rm(unsigned); rm(signed); rm(adjusted); return to the caller
Cleanup ==
    /\ UNCHANGED inputVars
    /\ pc = "cleanup"
    /\ fs' = Rm({unsigned, signed, adjusted})
    /\ IF cmd = "all"
       THEN /\ pc' = IF proc = "main" THEN "zip_uninstaller" ELSE "build_snet"
            /\ UNCHANGED <<exitStatus, errMsg, errFile>>
       ELSE ExitOk
    /\ UNCHANGED <<cmd, release, osName, present, tmpCount, proc, idx, entries,
                   unsigned, signed, adjusted, output, log>>

-----------------------------------------------------------------------------
(* The packaging run *)

Init ==
    /\ pc = "start"
    /\ cmd \in Commands
    /\ release \in BOOLEAN
    /\ osName \in OsNames
    /\ versionString \in VersionStrings
    /\ versionCode = 0
    /\ \E missing \in SubsetsUpTo(AllFiles, MaxMissing) :
          present = AllFiles \ missing
    /\ fs = << >>
    /\ tmpCount = 0
    /\ proc = "none"
    /\ idx = 0
    /\ entries = <<>>
    /\ unsigned = NoPath
    /\ signed = NoPath
    /\ adjusted = NoPath
    /\ output = NoPath
    /\ log = <<>>
    /\ exitStatus = 0
    /\ errMsg = "none"
    /\ errFile = NoPath
    /\ script = <<>>
    /\ util_func = <<>>
    /\ blobs = NoBlobs
    /\ template = <<>>
    /\ update_bin = <<>>
    /\ update_binary = <<>>

Next ==
    \/ Dispatch
    \/ build_binary
    \/ build_apk
    \/ build_snet
    \/ BeginZip
    \/ GenUpdateBinaryEntry
    \/ zip_with_msg
    \/ UtilFuncEntry
    \/ CloseZip
    \/ PrereqZipadjust
    \/ PrereqJarsigner
    \/ FirstSign
    \/ Adjust
    \/ SecondSign
    \/ Cleanup

Spec == Init /\ [][Next]_vars

TypeOK ==
    /\ exitStatus \in {0, 1}
    /\ \A p \in DOMAIN fs : IsTemp(p) \/ IsOutput(p)

-----------------------------------------------------------------------------
(* Properties of the packaging run *)

SigningStages == {"first sign", "adjust", "second sign"}

Targets(es) == [i \in 1..Len(es) |-> es[i].target]

\* the archive was closed at the end of the `with` block, or has been since
ArchiveComplete == proc # "none" /\ idx > Len(Plan(proc, release))

\* the files a procedure packs or embeds
RequiredFiles(p, rel) ==
    {it.source : it \in {i \in Range(Plan(p, rel)) : i.kind # "gen"}}
    \cup {B64xzArm, B64xzX86, BusyboxArm, BusyboxX86}

\* C1: the signing stages run in the order first sign, adjust, second sign
\* ("-m"); a stage is started only when the call before it returned 0; adjust
\* reads what the first sign wrote, the second sign reads what adjust wrote,
\* and only the second sign is given, and writes, the output path.
C1_StageOrder ==
    /\ \A i \in 1..Len(log) :
          /\ i > 1 => log[i - 1].rc = 0
          /\ log[i].stage = "first sign" =>
                /\ log[i].mode = ""
                /\ IsTemp(log[i].in) /\ IsTemp(log[i].out)
                /\ log[i].in # log[i].out
                /\ i > 1 => log[i - 1].stage \notin {"first sign", "adjust"}
          /\ log[i].stage = "adjust" =>
                /\ i > 1
                /\ log[i - 1].stage = "first sign"
                /\ log[i].in = log[i - 1].out
                /\ IsTemp(log[i].out)
                /\ log[i].out \notin {log[i].in, log[i - 1].in}
          /\ log[i].stage = "second sign" =>
                /\ i > 1
                /\ log[i - 1].stage = "adjust"
                /\ log[i].mode = "-m"
                /\ log[i].in = log[i - 1].out
                /\ IsOutput(log[i].out)
                /\ (i = Len(log) /\ (pc = "cleanup" \/ errMsg = "Second sign flashable zip failed!"))
                      => log[i].out = output
          /\ IsOutput(log[i].out) => log[i].stage = "second sign"
    /\ \A p \in DOMAIN fs :
          IsOutput(p) =>
             \E i \in 1..Len(log) : log[i].stage = "second sign" /\ log[i].out = p
    /\ pc = "cleanup" =>
          /\ Len(log) >= 3
          /\ log[Len(log) - 2].stage = "first sign"
          /\ log[Len(log) - 2].in = unsigned
          /\ log[Len(log) - 1].stage = "adjust"
          /\ log[Len(log)].stage = "second sign"

C1_Witness ==
    /\ pc = "cleanup"
    /\ proc = "uninstaller"
    /\ cmd = "all"
    /\ Len(SelectSeq(log, LAMBDA c : c.stage \in SigningStages)) = 6

C2_FailureStops ==
    /\ \A i \in 1..Len(log) :
          log[i].rc # 0 => i = Len(log) /\ pc = "exited" /\ exitStatus = 1
    /\ errMsg # "none" => pc = "exited" /\ exitStatus = 1
    \* an entry is written, and a later stage reached, only while every
    \* artifact looked for so far exists
    /\ proc # "none" =>
          \A k \in 1..Len(Plan(proc, release)) :
             (k < idx /\ Plan(proc, release)[k].kind # "gen")
                => Plan(proc, release)[k].source \in present
    /\ (proc # "none" /\ idx > 1) =>
          \A i \in 1..Len(GenInputs) : GenInputs[i] \in present
    /\ pc \in {"sign_adjust_zip", "check_jarsigner", "first_sign", "adjust",
               "second_sign", "cleanup"} => ArchiveComplete
    /\ pc \in {"first_sign", "adjust", "second_sign", "cleanup"} =>
          Jarsigner \in present
    /\ pc \in {"second_sign", "cleanup"} => Zipadjust \in present
    \* build_all reaches zip_uninstaller only after a complete zip_main
    /\ (cmd = "all" /\ (pc = "zip_uninstaller" \/ proc = "uninstaller")) =>
          /\ OutputPath("main", <<>>) \in DOMAIN fs
          /\ fs[OutputPath("main", <<>>)] = "FinalSigned"
    /\ pc = "exited" /\ exitStatus = 0 => errMsg = "none"

\* C2: the first failure ends the run: a non-zero return code of any tool, or
\* a missing artifact, leaves the process exited with status 1 as the last
\* thing that happened, no stage or entry write is reached past a failure,
\* and nothing happens once the process has exited.
C2_FirstFailureAborts == [](C2_FailureStops) /\ [][pc # "exited"]_vars

C2_Witness ==
    /\ pc = "exited"
    /\ exitStatus = 1
    /\ cmd = "all"
    /\ proc = "main"
    /\ Len(log) > 0
    /\ log[Len(log)].stage = "adjust"
    /\ log[Len(log)].rc # 0

\* C3: when the process has terminated, on any exit path, no temporary file
\* of the run is left.
C3_TempsDeletedAtExit ==
    pc = "exited" => \A p \in DOMAIN fs : ~IsTemp(p)

\* C4: the output path only ever holds the FinalSigned archive, and a run that
\* aborts has written nothing at the output path of the procedure it aborted.
C4_OutputOnlyFinalSigned ==
    /\ \A p \in DOMAIN fs : IsOutput(p) => fs[p] = "FinalSigned"
    /\ (pc = "exited" /\ exitStatus # 0) => output \notin DOMAIN fs

\* C5: when a required artifact of the procedure is missing, the run fails
\* before the unsigned temp archive is created or opened: an archive exists
\* only in runs where every required artifact exists.
C5_MissingArtifactBeforeOpen ==
    /\ unsigned # NoPath => RequiredFiles(proc, release) \subseteq present
    /\ errMsg = MissingArtifact => (entries = <<>> /\ DOMAIN fs = {})

MainEntries ==
    << <<"META-INF", "com", "google", "android", "update-binary">>,
       <<"META-INF", "com", "google", "android", "updater-script">>,
       <<"arm64", "magiskinit">>, <<"arm64", "magiskboot">>,
       <<"arm", "magiskinit">>, <<"arm", "magiskboot">>,
       <<"x86", "magiskinit">>, <<"x86", "magiskboot">>,
       <<"x64", "magiskinit">>, <<"x64", "magiskboot">>,
       <<"common", "magisk.apk">>,
       <<"common", "boot_patch.sh">>,
       <<"common", "util_functions.sh">>,
       <<"addon.d", "99-magisk.sh">>,
       <<"chromeos", "futility">>,
       <<"chromeos", "kernel_data_key.vbprivk">>,
       <<"chromeos", "kernel.keyblock">> >>

\* C6: a completed installer archive has exactly the 17 entries of the fixed
\* list, in its order, with pairwise distinct paths, whatever the version
\* values and the build flavour; while it is being written its entries are
\* the first ones of that list.
C6_MainEntryList ==
    proc = "main" =>
       /\ Len(entries) <= Len(MainEntries)
       /\ Targets(entries) = SubSeq(MainEntries, 1, Len(entries))
       /\ Cardinality(Range(Targets(entries))) = Len(entries)
       /\ ArchiveComplete => Len(entries) = 17

C6_Witness ==
    /\ proc = "main"
    /\ pc = "sign_adjust_zip"
    /\ Len(entries) = 17
    /\ versionString = Stub

UninstallerPayload ==
    { <<"arm64", "magiskboot">>, <<"arm", "magiskboot">>, <<"x86", "magiskboot">>,
      <<"x64", "magiskboot">>, <<"magisk_uninstaller.sh">>, <<"util_functions.sh">> }

UninstallerEntries ==
    << <<"META-INF", "com", "google", "android", "update-binary">>,
       <<"META-INF", "com", "google", "android", "updater-script">>,
       <<"arm64", "magiskboot">>, <<"arm", "magiskboot">>,
       <<"x86", "magiskboot">>, <<"x64", "magiskboot">>,
       <<"magisk_uninstaller.sh">>,
       <<"util_functions.sh">>,
       <<"chromeos", "futility">>,
       <<"chromeos", "kernel_data_key.vbprivk">>,
       <<"chromeos", "kernel.keyblock">> >>

\* C7 as stated: the completed uninstaller archive holds the four magiskboot
\* binaries, the uninstaller script and the util-functions script, and
\* nothing else.
C7_OnlyReducedSet ==
    (proc = "uninstaller" /\ ArchiveComplete) =>
       Range(Targets(entries)) = UninstallerPayload

\* C7 amended: the completed uninstaller archive holds, in this order, the
\* update-binary, the updater-script (the uninstaller loader), magiskboot for
\* each of the four architectures and no magiskinit, the uninstaller script,
\* the util-functions script with the placeholder replaced by the empty
\* string, and the three chromeos files: 11 entries and nothing else.
C7_UninstallerEntryList ==
    (proc = "uninstaller" /\ ArchiveComplete) =>
       /\ Targets(entries) = UninstallerEntries
       /\ UninstallerPayload \subseteq Range(Targets(entries))
       /\ entries[2].source = <<"scripts", "uninstaller_loader.sh">>
       /\ entries[7].source = <<"scripts", "magisk_uninstaller.sh">>
       /\ entries[8].kind = "util" /\ entries[8].new = <<>>
       /\ \A i \in 1..Len(entries) :
             entries[i].kind = "util" <=> i = 8

C7_Witness ==
    /\ proc = "uninstaller"
    /\ pc = "sign_adjust_zip"
    /\ ArchiveComplete
    /\ cmd = "uninstaller"

\* C9: whenever one of the four binaries gen_update_binary embeds is missing,
\* the run ends with the "Please build 'binary' before zipping!" error and
\* the update-binary entry is not written.
C9_ArtifactUnavailable ==
    (proc # "none"
        /\ {B64xzArm, B64xzX86, BusyboxArm, BusyboxX86} \ present # {}
        /\ (pc = "exited" \/ idx > 1))
      => /\ pc = "exited"
         /\ errMsg = ArtifactUnavailable
         /\ entries = <<>>

-----------------------------------------------------------------------------
(* The version placeholder substitution on its own *)

\* pieces the sample scripts are made of
Chunks ==
    { Stub,
      <<"M","A","G","I","S","K","_">>,
      <<"V","E","R","S","I","O","N","_","S","T","U","B">>,
      <<"#">>,
      <<"\n">> }

Scripts ==
    {Flatten(cs) : cs \in UNION {[1..n -> Chunks] : n \in 0..MaxChunks}}

InitSubst ==
    /\ pc = "subst"
    /\ script \in Scripts
    /\ versionString \in VersionStrings
    /\ versionCode \in VersionCodes
    /\ util_func = <<>>
    /\ cmd = "zip"
    /\ release = FALSE
    /\ osName = "posix"
    /\ present = AllFiles
    /\ fs = << >>
    /\ tmpCount = 0
    /\ proc = "none"
    /\ idx = 0
    /\ entries = <<>>
    /\ unsigned = NoPath
    /\ signed = NoPath
    /\ adjusted = NoPath
    /\ output = NoPath
    /\ log = <<>>
    /\ exitStatus = 0
    /\ errMsg = "none"
    /\ errFile = NoPath
    /\ blobs = NoBlobs
    /\ template = <<>>
    /\ update_bin = <<>>
    /\ update_binary = <<>>

substFrame ==
    <<cmd, release, osName, versionString, versionCode, present, fs, tmpCount,
      proc, idx, entries, unsigned, signed, adjusted, output, log, exitStatus,
      errMsg, errFile, script, blobs, template, update_bin, update_binary>>

\* the text the procedure's util_functions.sh entry puts in place of the token
UtilNew(p) ==
    LET item == CHOOSE it \in Range(Plan(p, release)) : it.kind = "util"
    IN  item.new

\* zip_main: util_func = script.read().replace('MAGISK_VERSION_STUB', 'MAGISK_VER=...')
PatchMain ==
    /\ pc = "subst"
    /\ util_func' = Replace(script, Stub, UtilNew("main"))
    /\ pc' = "patched main"
    /\ UNCHANGED substFrame

\* zip_uninstaller: util_func = script.read().replace('MAGISK_VERSION_STUB', '')
PatchUninstaller ==
    /\ pc = "subst"
    /\ util_func' = Replace(script, Stub, UtilNew("uninstaller"))
    /\ pc' = "patched uninstaller"
    /\ UNCHANGED substFrame

NextSubst ==
    \/ PatchMain
    \/ PatchUninstaller

SpecSubst == InitSubst /\ [][NextSubst]_vars

\* positions at which the token occurs in a text
Occurrences(s) ==
    {i \in 1..(Len(s) - Len(Stub) + 1) : SubSeq(s, i, i + Len(Stub) - 1) = Stub}

Before(s, p) == SubSeq(s, 1, p - 1)

After(s, p) == SubSeq(s, p + Len(Stub), Len(s))

IsPrefixOf(a, s) == Len(a) <= Len(s) /\ SubSeq(s, 1, Len(a)) = a

RECURSIVE ParseNat(_)
ParseNat(d) ==
    IF d = <<>> THEN 0
    ELSE 10 * ParseNat(SubSeq(d, 1, Len(d) - 1))
         + (CHOOSE k \in 0..9 : Digits[k + 1] = d[Len(d)])

\* d is the decimal numeral of n
IsDecimalOf(d, n) ==
    LET m == IF n < 0 THEN Tail(d) ELSE d
    IN  /\ Len(d) >= 1
        /\ n < 0 => d[1] = "-"
        /\ Len(m) >= 1
        /\ \A i \in 1..Len(m) : m[i] \in Range(Digits)
        /\ Len(m) > 1 => m[1] # "0"
        /\ ParseNat(m) = (IF n < 0 THEN 0 - n ELSE n)

VerAssign == <<"M","A","G","I","S","K","_","V","E","R","=","\"">>

CodeAssign ==
    <<"\"","\n","M","A","G","I","S","K","_","V","E","R","_","C","O","D","E","=">>

\* t is s with the token at p replaced by the two version lines
HasVersionLinesAt(t, s, p) ==
    LET n == Len(Before(s, p)) + Len(VerAssign) + Len(versionString) + Len(CodeAssign)
        d == SubSeq(t, n + 1, Len(t) - Len(After(s, p)))
    IN  /\ IsPrefixOf(Before(s, p) \o VerAssign \o versionString \o CodeAssign, t)
        /\ IsDecimalOf(d, versionCode)
        /\ t = SubSeq(t, 1, n) \o d \o After(s, p)

\* C8 as stated: for a script with the token exactly once, and any version
\* string and code, the installer's script has the two version lines at the
\* token's place, the rest unchanged, and no token left; the uninstaller's
\* script is the script with the token taken out.
C8_Substitution ==
    Cardinality(Occurrences(script)) = 1 =>
       LET p == CHOOSE i \in Occurrences(script) : TRUE
       IN  /\ pc = "patched main" =>
                /\ HasVersionLinesAt(util_func, script, p)
                /\ Occurrences(util_func) = {}
           /\ pc = "patched uninstaller" =>
                util_func = Before(script, p) \o After(script, p)

\* C8 amended: the same, for every version string that does not itself
\* contain the token.
C8_SubstitutionCleanVersion ==
    (Cardinality(Occurrences(script)) = 1 /\ Occurrences(versionString) = {}) =>
       LET p == CHOOSE i \in Occurrences(script) : TRUE
       IN  /\ pc = "patched main" =>
                /\ HasVersionLinesAt(util_func, script, p)
                /\ Occurrences(util_func) = {}
           /\ pc = "patched uninstaller" =>
                util_func = Before(script, p) \o After(script, p)

C8_Witness ==
    /\ pc = "patched main"
    /\ Cardinality(Occurrences(script)) = 1
    /\ Len(script) > Len(Stub) + 8
    /\ versionString = <<"2","4",".","0">>
    /\ versionCode = 2400
    /\ Occurrences(util_func) = {}

-----------------------------------------------------------------------------
(* gen_update_binary on its own *)

HexDigits ==
    <<"0", "1", "2", "3", "4", "5", "6", "7", "8", "9", "A", "B", "C", "D", "E", "F">>

RECURSIVE HexNoPad(_)
HexNoPad(c) ==
    IF c < 16 THEN <<HexDigits[c + 1]>>
    ELSE HexNoPad(c \div 16) \o <<HexDigits[(c % 16) + 1]>>

\* "\\x{:X}": the escape without the zero padding to two digits
HexEscape_NoPad(bytes) ==
    Flatten([k \in 1..Len(bytes) |-> <<"\\", "x">> \o HexNoPad(bytes[k])])

\* ''.join("\\x{:02X}".format(c) for c in bytes)
HexEscape(bytes) ==
    Flatten([k \in 1..Len(bytes) |->
                <<"\\", "x", HexDigits[(bytes[k] \div 16) + 1],
                  HexDigits[(bytes[k] % 16) + 1]>>])

B64Alphabet ==
    <<"A","B","C","D","E","F","G","H","I","J","K","L","M","N","O","P","Q","R",
      "S","T","U","V","W","X","Y","Z","a","b","c","d","e","f","g","h","i","j",
      "k","l","m","n","o","p","q","r","s","t","u","v","w","x","y","z","0","1",
      "2","3","4","5","6","7","8","9","+","/">>

RECURSIVE b64encode(_)
\* base64.b64encode(bytes).decode('ascii')
b64encode(bytes) ==
    IF Len(bytes) = 0 THEN <<>>
    ELSE IF Len(bytes) = 1
    THEN <<B64Alphabet[(bytes[1] \div 4) + 1],
           B64Alphabet[((bytes[1] % 4) * 16) + 1], "=", "=">>
    ELSE IF Len(bytes) = 2
    THEN <<B64Alphabet[(bytes[1] \div 4) + 1],
           B64Alphabet[((bytes[1] % 4) * 16) + (bytes[2] \div 16) + 1],
           B64Alphabet[((bytes[2] % 16) * 4) + 1], "=">>
    ELSE <<B64Alphabet[(bytes[1] \div 4) + 1],
           B64Alphabet[((bytes[1] % 4) * 16) + (bytes[2] \div 16) + 1],
           B64Alphabet[((bytes[2] % 16) * 4) + (bytes[3] \div 64) + 1],
           B64Alphabet[(bytes[3] % 64) + 1]>>
         \o b64encode(SubSeq(bytes, 4, Len(bytes)))

\* lzma.compress(data, preset=9) is the xz codec of the Python library; it is
\* kept here as a container: the stream header magic, the data, the footer
\* magic
XzHeader == <<253, 55, 122, 88, 90, 0>>

XzFooter == <<89, 90>>

lzma_compress(data) == XzHeader \o data \o XzFooter

Directive == <<"#", "!", " ", "/", "s", "b", "i", "n", "/", "s", "h">>

\* the string literals gen_update_binary appends
LitExArm == Directive \o <<"\n", "E", "X", "_", "A", "R", "M", "=", "'">>
LitExX86 == <<"'", "\n", "E", "X", "_", "X", "8", "6", "=", "'">>
LitBbArm == <<"'", "\n", "B", "B", "_", "A", "R", "M", "=">>
LitBbX86 == <<"\n", "B", "B", "_", "X", "8", "6", "=">>

ByteSamples == {10, 255}

Binaries == UNION {[1..n -> ByteSamples] : n \in 0..MaxBinLen}

Templates ==
    { <<>>,
      <<"e", "x", "i", "t", "\n">>,
      <<"\n", "B", "B", "_", "X", "8", "6", "=", "'", "\n", "#">> }

InitEnc ==
    /\ pc = "EX_ARM"
    /\ blobs \in [{B64xzArm, B64xzX86, BusyboxArm, BusyboxX86} -> Binaries]
    /\ template \in Templates
    /\ update_bin = <<>>
    /\ update_binary = <<>>
    /\ script = <<>>
    /\ util_func = <<>>
    /\ versionString = <<>>
    /\ versionCode = 0
    /\ cmd = "zip"
    /\ release = FALSE
    /\ osName = "posix"
    /\ present = AllFiles
    /\ fs = << >>
    /\ tmpCount = 0
    /\ proc = "none"
    /\ idx = 0
    /\ entries = <<>>
    /\ unsigned = NoPath
    /\ signed = NoPath
    /\ adjusted = NoPath
    /\ output = NoPath
    /\ log = <<>>
    /\ exitStatus = 0
    /\ errMsg = "none"
    /\ errFile = NoPath

encFrame ==
    <<cmd, release, osName, versionString, versionCode, present, fs, tmpCount,
      proc, idx, entries, unsigned, signed, adjusted, output, log, exitStatus,
      errMsg, errFile, script, util_func, blobs, template>>

\* with open(out/armeabi-v7a/b64xz): append '#! /sbin/sh\nEX_ARM=\'' and the hex
EncExArm ==
    /\ pc = "EX_ARM"
    /\ B64xzArm \in present
    /\ update_bin' = update_bin \o <<LitExArm, HexEscape(blobs[B64xzArm])>>
    /\ pc' = "EX_X86"
    /\ UNCHANGED <<encFrame, update_binary>>

\* with open(out/x86/b64xz): append '\'\nEX_X86=\'' and the hex
EncExX86 ==
    /\ pc = "EX_X86"
    /\ update_bin' = update_bin \o <<LitExX86, HexEscape(blobs[B64xzX86])>>
    /\ pc' = "BB_ARM"
    /\ UNCHANGED <<encFrame, update_binary>>

\* with open(out/armeabi-v7a/busybox): append '\'\nBB_ARM=' and the base64
EncBbArm ==
    /\ pc = "BB_ARM"
    /\ update_bin' = update_bin
                       \o <<LitBbArm, b64encode(lzma_compress(blobs[BusyboxArm]))>>
    /\ pc' = "BB_X86"
    /\ UNCHANGED <<encFrame, update_binary>>

\* with open(out/x86/busybox): append '\nBB_X86=', the base64 and '\n'
EncBbX86 ==
    /\ pc = "BB_X86"
    /\ update_bin' = update_bin
                       \o <<LitBbX86, b64encode(lzma_compress(blobs[BusyboxX86])), <<"\n">> >>
    /\ pc' = "script"
    /\ UNCHANGED <<encFrame, update_binary>>

\* with open(scripts/update_binary.sh): append script.read()
EncScript ==
    /\ pc = "script"
    /\ update_bin' = Append(update_bin, template)
    /\ pc' = "join"
    /\ UNCHANGED <<encFrame, update_binary>>

\* return ''.join(update_bin)
EncReturn ==
    /\ pc = "join"
    /\ update_binary' = Flatten(update_bin)
    /\ pc' = "returned"
    /\ UNCHANGED <<encFrame, update_bin>>

NextEnc ==
    \/ EncExArm
    \/ EncExX86
    \/ EncBbArm
    \/ EncBbX86
    \/ EncScript
    \/ EncReturn

SpecEnc == InitEnc /\ [][NextEnc]_vars

\* index of the first newline of a text, 0 if it has none
FirstNewline(t) ==
    IF \E i \in 1..Len(t) : t[i] = "\n"
    THEN CHOOSE i \in 1..Len(t) : t[i] = "\n" /\ \A j \in 1..(i - 1) : t[j] # "\n"
    ELSE 0

RECURSIVE AfterLines(_, _)
\* the text after its first n lines
AfterLines(t, n) ==
    IF n = 0 THEN t
    ELSE AfterLines(SubSeq(t, FirstNewline(t) + 1, Len(t)), n - 1)

RECURSIVE HasLines(_, _)
HasLines(t, n) ==
    n = 0 \/ (FirstNewline(t) > 0
                /\ HasLines(SubSeq(t, FirstNewline(t) + 1, Len(t)), n - 1))

\* line n of a text, without its newline
LineOf(t, n) ==
    LET r == AfterLines(t, n - 1)
    IN  SubSeq(r, 1, FirstNewline(r) - 1)

HexValue(ch) == CHOOSE v \in 0..15 : HexDigits[v + 1] = ch

\* h is one \xHH escape per byte of bytes, in byte order
IsHexEscapeOf(h, bytes) ==
    /\ Len(h) = 4 * Len(bytes)
    /\ \A k \in 1..Len(bytes) :
          /\ h[4 * k - 3] = "\\"
          /\ h[4 * k - 2] = "x"
          /\ h[4 * k - 1] \in Range(HexDigits)
          /\ h[4 * k] \in Range(HexDigits)
          /\ 16 * HexValue(h[4 * k - 1]) + HexValue(h[4 * k]) = bytes[k]

B64Value(ch) == CHOOSE v \in 0..63 : B64Alphabet[v + 1] = ch

RECURSIVE B64Decode(_)
\* the bytes a padded base64 text stands for
B64Decode(b) ==
    IF Len(b) < 4 THEN <<>>
    ELSE LET v1 == B64Value(b[1])
             v2 == B64Value(b[2])
         IN  IF b[3] = "="
             THEN <<v1 * 4 + (v2 \div 16)>>
             ELSE IF b[4] = "="
             THEN <<v1 * 4 + (v2 \div 16),
                    (v2 % 16) * 16 + (B64Value(b[3]) \div 4)>>
             ELSE <<v1 * 4 + (v2 \div 16),
                    (v2 % 16) * 16 + (B64Value(b[3]) \div 4),
                    (B64Value(b[3]) % 4) * 64 + B64Value(b[4])>>
                  \o B64Decode(SubSeq(b, 5, Len(b)))

\* b is the base64 text of bytes
IsBase64Of(b, bytes) ==
    /\ Len(b) = 4 * ((Len(bytes) + 2) \div 3)
    /\ \A i \in 1..Len(b) : b[i] \in Range(B64Alphabet) \cup {"="}
    /\ \A i \in 1..(Len(b) - 2) : b[i] # "="
    /\ B64Decode(b) = bytes

\* line is name=value, or name='value' when quoted
IsAssignment(line, name, quoted, IsValue(_)) ==
    LET q == IF quoted THEN <<"'">> ELSE <<>>
        head == name \o <<"=">> \o q
        value == SubSeq(line, Len(head) + 1, Len(line) - Len(q))
    IN  /\ Len(line) >= Len(head) + Len(q)
        /\ IsPrefixOf(head, line)
        /\ line = head \o value \o q
        /\ IsValue(value)

\* C10: the returned text is, in this order and with nothing else, the line
\* "#! /sbin/sh", the line EX_ARM='...' with the ARM launcher as one \xHH
\* escape per byte, the line EX_X86='...' with the x86 launcher likewise, the
\* line BB_ARM=... with the base64 of the compressed ARM utility binary, the
\* line BB_X86=... with that of the x86 one, and then the control script
\* template verbatim.
C10_UpdateBinaryLayout ==
    pc = "returned" =>
       /\ HasLines(update_binary, 5)
       /\ LineOf(update_binary, 1) = Directive
       /\ IsAssignment(LineOf(update_binary, 2), <<"E", "X", "_", "A", "R", "M">>, TRUE,
                       LAMBDA v : IsHexEscapeOf(v, blobs[<<"out", "armeabi-v7a", "b64xz">>]))
       /\ IsAssignment(LineOf(update_binary, 3), <<"E", "X", "_", "X", "8", "6">>, TRUE,
                       LAMBDA v : IsHexEscapeOf(v, blobs[<<"out", "x86", "b64xz">>]))
       /\ IsAssignment(LineOf(update_binary, 4), <<"B", "B", "_", "A", "R", "M">>, FALSE,
                       LAMBDA v : IsBase64Of(v, lzma_compress(blobs[<<"out", "armeabi-v7a", "busybox">>])))
       /\ IsAssignment(LineOf(update_binary, 5), <<"B", "B", "_", "X", "8", "6">>, FALSE,
                       LAMBDA v : IsBase64Of(v, lzma_compress(blobs[<<"out", "x86", "busybox">>])))
       /\ AfterLines(update_binary, 5) = template

C10_Witness ==
    /\ pc = "returned"
    /\ blobs[B64xzArm] = <<10, 255>>
    /\ blobs[B64xzX86] = <<255>>
    /\ blobs[BusyboxArm] = <<255, 10>>
    /\ blobs[BusyboxX86] = <<>>
    /\ Len(template) > 5
    /\ Len(update_binary) > Len(template) + 40

====
